---- MODULE Spec2Model ----
(***************************************************************************)
(* Model of PrimateToPrimate.py: projection of rectangle coordinates onto  *)
(* the sphere (SquareToSphere), construction of the piecewise affine       *)
(* transform (Affine_Transform), its application to a texture (rescale),   *)
(* and the part of main that resolves the corresponding axes.              *)
(*                                                                         *)
(* Floating point numbers are modelled as exact rationals [n, d] with      *)
(* d > 0 and gcd(n, d) = 1; d = 0 stands for the non-finite results of a   *)
(* numpy division by zero (n = 1: inf, n = -1: -inf, n = 0: nan).          *)
(* Rounding and signed zeros are not modelled.  Python integers (indices,  *)
(* lengths) are TLA+ integers.  Python sequences are 0-based, TLA+         *)
(* sequences 1-based: the Python index k is position k + 1.                *)
(***************************************************************************)
EXTENDS Integers, Sequences, FiniteSets, TLC

VARIABLES pc, args, ret, corr, onSphere, long_corr, lat_corr, i

\* the locals of main
mainVars == <<corr, onSphere, long_corr, lat_corr, i>>

vars == <<pc, args, ret, corr, onSphere, long_corr, lat_corr, i>>

(***************************************************************************)
(* Bounds of the model.                                                    *)
(***************************************************************************)
MaxAxes == 2
MaxAnchors == 2
MaxVertices == 2

(***************************************************************************)
(* Python floats.                                                          *)
(***************************************************************************)
Abs(x) == IF x < 0 THEN -x ELSE x

Sign(x) == IF x > 0 THEN 1 ELSE IF x < 0 THEN -1 ELSE 0

RECURSIVE GCD(_, _)
GCD(a, b) == IF b = 0 THEN a ELSE GCD(b, a % b)

Norm(n, d) ==
    LET g == GCD(Abs(n), Abs(d))
        s == Sign(d)
    IN  [n |-> (s * n) \div g, d |-> (s * d) \div g]

Flt(k) == [n |-> k, d |-> 1]

Zero == Flt(0)

NaN == [n |-> 0, d |-> 0]

Inf(s) == [n |-> s, d |-> 0]

IsFinite(a) == a.d # 0

IsNaN(a) == a.d = 0 /\ a.n = 0

FNeg(a) == [n |-> -a.n, d |-> a.d]

\* a + b
FAdd(a, b) ==
    IF IsFinite(a) /\ IsFinite(b) THEN Norm(a.n * b.d + b.n * a.d, a.d * b.d)
    ELSE IF IsNaN(a) \/ IsNaN(b) THEN NaN
    ELSE IF ~IsFinite(a) /\ ~IsFinite(b) THEN (IF a.n = b.n THEN a ELSE NaN)
    ELSE IF IsFinite(a) THEN b ELSE a

\* a - b
FSub(a, b) == FAdd(a, FNeg(b))

\* a * b
FMul(a, b) ==
    IF IsFinite(a) /\ IsFinite(b) THEN Norm(a.n * b.n, a.d * b.d)
    ELSE IF IsNaN(a) \/ IsNaN(b) \/ a.n = 0 \/ b.n = 0 THEN NaN
    ELSE Inf(Sign(a.n) * Sign(b.n))

\* a / b on numpy floats: a division by zero yields inf or nan (with a
\* warning), it does not raise.
FDiv(a, b) ==
    IF IsFinite(a) /\ IsFinite(b)
    THEN IF b.n = 0 THEN (IF a.n = 0 THEN NaN ELSE Inf(Sign(a.n)))
         ELSE Norm(a.n * b.d, a.d * b.n)
    ELSE IF IsNaN(a) \/ IsNaN(b) THEN NaN
    ELSE IF ~IsFinite(a) /\ ~IsFinite(b) THEN NaN
    ELSE IF IsFinite(a) THEN Zero
    ELSE Inf(a.n * (IF b.n < 0 THEN -1 ELSE 1))

\* a < b; every comparison with nan is false
FLt(a, b) ==
    IF IsFinite(a) /\ IsFinite(b) THEN a.n * b.d < b.n * a.d
    ELSE IF IsNaN(a) \/ IsNaN(b) THEN FALSE
    ELSE IF ~IsFinite(a) /\ ~IsFinite(b) THEN a.n < b.n
    ELSE IF IsFinite(a) THEN b.n > 0 ELSE a.n < 0

\* a >= b
FGe(a, b) == ~IsNaN(a) /\ ~IsNaN(b) /\ ~FLt(a, b)

(***************************************************************************)
(* Outcome of a call: the returned value, or the exception raised.         *)
(***************************************************************************)
Return(v) == [err |-> "none", val |-> v]

Raise(e) == [err |-> e, val |-> <<>>]

Returned(r) == r.err = "none"

Pending == [err |-> "pending", val |-> <<>>]

SeqsUpTo(S, k) == UNION {[1..m -> S] : m \in 0..k}

(***************************************************************************)
(* SquareToSphere                                                          *)
(***************************************************************************)
\* a / b on Python floats (the dimensions and the band are Python numbers):
\* a division by zero raises, whatever a is; a division by nan or by an
\* infinity does not
PyDiv(a, b) ==
    IF IsFinite(b) /\ b.n = 0 THEN Raise("ZeroDivisionError")
    ELSE Return(FDiv(a, b))

\* lines 42-44 (species 1) and 51-53 (species 2): the cardinal is the length
\* of the longitude list itself in both loops; 360 / L is evaluated in each
\* iteration
LongToSphere(longs, L) ==
    LET factor == PyDiv(Flt(360), L)
    IN  IF Len(longs) > 0 /\ ~Returned(factor) THEN factor
        ELSE Return([k \in 1..Len(longs) |->
                FAdd(FMul(longs[k], factor.val),
                     IF FLt(longs[k], Zero) THEN Flt(360) ELSE Zero)])

\* lines 46-49: species 1, Nlat_P1 = len(sulciP1[1]); range_lat / l is
\* evaluated for the latitudes strictly inside the band
LatToSphere_P1(lats, l, lat_sphere) ==
    LET lat_min == lat_sphere[1]
        lat_max == lat_sphere[2]
        range_lat == FSub(lat_max, lat_min)
        factor == PyDiv(range_lat, l)
    IN  IF ~Returned(factor)
            /\ \E k \in 1..Len(lats) : FLt(lat_min, lats[k]) /\ FLt(lats[k], lat_max)
        THEN factor
        ELSE Return([k \in 1..Len(lats) |->
                IF FLt(lat_min, lats[k]) /\ FLt(lats[k], lat_max)
                THEN FAdd(FMul(lats[k], factor.val), Flt(30))
                ELSE lats[k]])

\* LatToSphere_P2 with the lower bound of the band taken as inside it
LatToSphere_P2_ClosedBand(longs, lats, l, lat_sphere) ==
    LET lat_min == lat_sphere[1]
        lat_max == lat_sphere[2]
        range_lat == FSub(lat_max, lat_min)
        Nlat_P2 == Len(longs)
        factor == PyDiv(range_lat, l)
    IN  IF ~Returned(factor)
            /\ \E k \in 1..Len(lats) :
                  k <= Nlat_P2 /\ FGe(lats[k], lat_min) /\ FLt(lats[k], lat_max)
        THEN factor
        ELSE IF Nlat_P2 > Len(lats) THEN Raise("IndexError")
        ELSE Return([k \in 1..Len(lats) |->
                IF k <= Nlat_P2 /\ FGe(lats[k], lat_min) /\ FLt(lats[k], lat_max)
                THEN FAdd(FMul(lats[k], factor.val), Flt(30))
                ELSE lats[k]])

\* lines 55-58: species 2, Nlat_P2 = len(sulciP2[0]) (line 28); the loop
\* reads sulciP2[1][i] for every i < Nlat_P2, out of range once i reaches
\* len(sulciP2[1]); range_lat / l is evaluated, before that, for the
\* latitudes strictly inside the band
LatToSphere_P2(longs, lats, l, lat_sphere) ==
    LET lat_min == lat_sphere[1]
        lat_max == lat_sphere[2]
        range_lat == FSub(lat_max, lat_min)
        Nlat_P2 == Len(longs)
        factor == PyDiv(range_lat, l)
    IN  IF ~Returned(factor)
            /\ \E k \in 1..Len(lats) :
                  k <= Nlat_P2 /\ FLt(lat_min, lats[k]) /\ FLt(lats[k], lat_max)
        THEN factor
        ELSE IF Nlat_P2 > Len(lats) THEN Raise("IndexError")
        ELSE Return([k \in 1..Len(lats) |->
                IF k <= Nlat_P2 /\ FLt(lat_min, lats[k]) /\ FLt(lats[k], lat_max)
                THEN FAdd(FMul(lats[k], factor.val), Flt(30))
                ELSE lats[k]])

\* the four loops run in this order, and the first exception ends the call
SquareToSphere(dimP1, dimP2, sulciP1, sulciP2, lat_sphere) ==
    LET longS_P1 == LongToSphere(sulciP1[1], dimP1[1])
        latS_P1 == LatToSphere_P1(sulciP1[2], dimP1[2], lat_sphere)
        longS_P2 == LongToSphere(sulciP2[1], dimP2[1])
        latS_P2 == LatToSphere_P2(sulciP2[1], sulciP2[2], dimP2[2], lat_sphere)
    IN  IF ~Returned(longS_P1) THEN longS_P1
        ELSE IF ~Returned(latS_P1) THEN latS_P1
        ELSE IF ~Returned(longS_P2) THEN longS_P2
        ELSE IF ~Returned(latS_P2) THEN latS_P2
        ELSE Return(<<longS_P1.val, latS_P1.val, longS_P2.val, latS_P2.val>>)

(***************************************************************************)
(* Specification of the calls of SquareToSphere.                           *)
(***************************************************************************)
LongValues == {Flt(-20), Flt(50)}

LatValues == {Flt(30), Flt(60)}

\* 30 and 60 are on a bound of the first band and inside it, inside the
\* second and on a bound of it, below and above the third
Bands == {<<Flt(30), Flt(150)>>, <<Flt(20), Flt(60)>>, <<Flt(40), Flt(50)>>}

\* rectangles, one of them of length 0 along an axis
DimsP1 == {<<Flt(100), Flt(50)>>, <<Flt(100), Zero>>}

DimsP2 == {<<Flt(200), Flt(80)>>, <<Zero, Flt(80)>>}

SulciInputs == SeqsUpTo(LongValues, MaxAxes) \X SeqsUpTo(LatValues, MaxAxes)

NoMain == corr = <<>> /\ onSphere = <<>> /\ long_corr = <<>> /\ lat_corr = <<>> /\ i = 0

InitProject ==
    /\ pc = "call"
    /\ args \in [dimP1 : DimsP1,
                 dimP2 : DimsP2,
                 sulciP1 : SulciInputs,
                 sulciP2 : SulciInputs,
                 lat_sphere : Bands]
    /\ ret = Pending
    /\ NoMain

CallSquareToSphere ==
    /\ pc = "call"
    /\ ret' = SquareToSphere(args.dimP1, args.dimP2, args.sulciP1,
                             args.sulciP2, args.lat_sphere)
    /\ pc' = "done"
    /\ UNCHANGED <<args, mainVars>>

NextProject == CallSquareToSphere

SpecProject == InitProject /\ [][NextProject]_vars

(***************************************************************************)
(* Affine_Transform                                                        *)
(*                                                                         *)
(* A numpy array of indices is [dtype, rows]: an array whose dtype is not  *)
(* an integer type cannot be used as an index.                             *)
(***************************************************************************)
IntArray(rows) == [dtype |-> "int", rows |-> rows]

FloatArray(rows) == [dtype |-> "float", rows |-> rows]

\* arr[:, c]
Column(arr, c) ==
    IF \E r \in 1..Len(arr.rows) : Len(arr.rows[r]) <= c THEN Raise("IndexError")
    ELSE Return([dtype |-> arr.dtype,
                 rows |-> [r \in 1..Len(arr.rows) |-> arr.rows[r][c + 1]]])

\* a[idx] with idx an array: every index must be an integer within
\* -len(a) .. len(a) - 1, a negative one counting from the end
Take(a, idx) ==
    IF ~Returned(idx) THEN idx
    ELSE IF idx.val.dtype # "int" THEN Raise("IndexError")
    ELSE IF \E r \in 1..Len(idx.val.rows) :
                idx.val.rows[r] >= Len(a) \/ idx.val.rows[r] < -Len(a)
         THEN Raise("IndexError")
    ELSE Return([r \in 1..Len(idx.val.rows) |->
                    IF idx.val.rows[r] < 0 THEN a[idx.val.rows[r] + Len(a) + 1]
                    ELSE a[idx.val.rows[r] + 1]])

\* np.zeros((N, 2))
ZeroTransform(N) == [k \in 1..N |-> <<Zero, Zero>>]

\* lines 94-95: the first interval, from the first entries of the full lists
FirstSegment(transform, coordsP1, coordsP2) ==
    IF Len(transform) = 0 \/ Len(coordsP1) = 0 \/ Len(coordsP2) = 0
    THEN Raise("IndexError")
    ELSE Return([transform EXCEPT ![1] = <<FDiv(coordsP2[1], coordsP1[1]), Zero>>])

\* lines 97-99: iteration k of the loop on range(1, Nlong); longP2[k + 1] is
\* read first
RECURSIVE LongSegments(_, _, _, _, _)
LongSegments(long_transform, longP1, longP2, Nlong, k) ==
    IF k >= Nlong THEN Return(long_transform)
    ELSE IF k + 1 >= Len(longP2) \/ k + 1 >= Len(longP1) THEN Raise("IndexError")
    ELSE LET scale == FDiv(FSub(longP2[k + 2], longP2[k + 1]),
                           FSub(longP1[k + 2], longP1[k + 1]))
             offset == FSub(longP2[k + 1], FMul(longP1[k + 1], scale))
         IN  LongSegments([long_transform EXCEPT ![k + 1] = <<scale, offset>>],
                          longP1, longP2, Nlong, k + 1)

\* lines 101-103: iteration k of the loop on range(1, Nlat); latP2[k + 1] is
\* read first, then latP1[1][k] indexes the float latP1[1]
LatSegments(lat_transform, latP1, latP2, Nlat, k) ==
    IF k >= Nlat THEN Return(lat_transform)
    ELSE IF k + 1 >= Len(latP2) \/ k + 1 >= Len(latP1) THEN Raise("IndexError")
    ELSE Raise("IndexError")

Affine_Transform(sulciP1, sulciP2, longCorr, latCorr) ==
    LET Nlong == Len(longCorr.rows)
        Nlat == Len(latCorr.rows)
        longP1 == Take(sulciP1[1], Column(longCorr, 0))
        latP1 == Take(sulciP1[2], Column(latCorr, 0))
        longP2 == Take(sulciP2[1], Column(longCorr, 1))
        latP2 == Take(sulciP2[2], Column(latCorr, 1))
        long0 == FirstSegment(ZeroTransform(Nlong), sulciP1[1], sulciP2[1])
        lat0 == FirstSegment(ZeroTransform(Nlat), sulciP1[2], sulciP2[2])
        long_transform == LongSegments(long0.val, longP1.val, longP2.val, Nlong, 1)
        lat_transform == LatSegments(lat0.val, latP1.val, latP2.val, Nlat, 1)
    IN  IF ~Returned(longP1) THEN longP1
        ELSE IF ~Returned(latP1) THEN latP1
        ELSE IF ~Returned(longP2) THEN longP2
        ELSE IF ~Returned(latP2) THEN latP2
        ELSE IF ~Returned(long0) THEN long0
        ELSE IF ~Returned(lat0) THEN lat0
        ELSE IF ~Returned(long_transform) THEN long_transform
        ELSE IF ~Returned(lat_transform) THEN lat_transform
        ELSE Return(<<long_transform.val, lat_transform.val>>)

(***************************************************************************)
(* Specification of the calls of Affine_Transform.                         *)
(***************************************************************************)
SeqsOfLen(S, k) == [1..k -> S]

SeqsFrom1(S, k) == UNION {[1..m -> S] : m \in 1..k}

CorrArrays == {IntArray(rows) :
                 rows \in SeqsFrom1((0..(MaxAxes - 1)) \X (0..(MaxAxes - 1)), MaxAnchors)}

InitAffine ==
    /\ pc = "call"
    /\ args \in [sulciP1 : SeqsOfLen({Zero, Flt(10), Flt(40)}, MaxAxes)
                             \X SeqsOfLen({Flt(20), Flt(50)}, MaxAxes),
                 sulciP2 : SeqsOfLen({Flt(30), Flt(90)}, MaxAxes)
                             \X SeqsOfLen({Flt(40), Flt(80)}, MaxAxes),
                 long_corr : CorrArrays,
                 lat_corr : CorrArrays]
    /\ ret = Pending
    /\ NoMain

CallAffine_Transform ==
    /\ pc = "call"
    /\ ret' = Affine_Transform(args.sulciP1, args.sulciP2, args.long_corr,
                               args.lat_corr)
    /\ pc' = "done"
    /\ UNCHANGED <<args, mainVars>>

NextAffine == CallAffine_Transform

SpecAffine == InitAffine /\ [][NextAffine]_vars

(***************************************************************************)
(* rescale                                                                 *)
(***************************************************************************)
\* np.concatenate(arrays, axis) as line 124 calls it: the second positional
\* parameter is the axis, and the axis it is given is the array of the
\* intervals, which is not an integer: the call raises TypeError and joins
\* nothing
NpConcatenate(arrays, axis) == Raise("TypeError")

\* lines 129-134: the sweep at indices i = ii and j = jj; sulci[jj] is read
\* first, then new_intervals[ii], and new_intervals[ii + 1] if the first
\* comparison holds; rescaled starts at zero (line 126) and is what the
\* segment is applied to
RECURSIVE Sweep(_, _, _, _, _, _)
Sweep(rescaled, sulci, affine, new_intervals, ii, jj) ==
    LET N == Len(sulci) IN
    IF ii >= N THEN Return(<<rescaled, jj>>)
    ELSE IF jj >= N \/ ii >= Len(new_intervals) THEN Raise("IndexError")
    ELSE IF ~FGe(sulci[jj + 1], new_intervals[ii + 1])
         THEN Sweep(rescaled, sulci, affine, new_intervals, ii + 1, jj)
    ELSE IF ii + 1 >= Len(new_intervals) THEN Raise("IndexError")
    ELSE IF ~FLt(sulci[jj + 1], new_intervals[ii + 2])
         THEN Sweep(rescaled, sulci, affine, new_intervals, ii + 1, jj)
    ELSE IF ii >= Len(affine) THEN Raise("IndexError")
    ELSE Sweep([rescaled EXCEPT ![jj + 1] =
                    FAdd(FMul(rescaled[jj + 1], affine[ii + 1][1]), affine[ii + 1][2])],
               sulci, affine, new_intervals, ii, jj + 1)

\* lines 135-137: the last interval, with the segment affine[N], N = len(sulci)
LastInterval(rescaled, affine, jj, N) ==
    IF jj >= N THEN Return(rescaled)
    ELSE IF N >= Len(affine) THEN Raise("IndexError")
    ELSE Return([l \in 1..N |->
            IF l > jj
            THEN FAdd(FMul(rescaled[l], affine[N + 1][1]), affine[N + 1][2])
            ELSE rescaled[l]])

rescale(sulci, affine, intervals) ==
    IF Len(affine) # Len(intervals) + 1 THEN Raise("AssertionError")
    ELSE LET new_intervals == NpConcatenate(<<0>>, intervals)
             N == Len(sulci)
             swept == Sweep([l \in 1..N |-> Zero], sulci, affine,
                            new_intervals.val, 0, 0)
         IN  IF ~Returned(new_intervals) THEN new_intervals
             ELSE IF ~Returned(swept) THEN swept
             ELSE LastInterval(swept.val[1], affine, swept.val[2], N)

(***************************************************************************)
(* Specification of the calls of rescale.                                  *)
(***************************************************************************)
TextureValues == {Flt(5), Flt(10), Flt(25), Flt(50)}

\* the boundaries 10, 40, 70, ...: strictly increasing
Boundaries(m) == [k \in 1..m |-> Flt(30 * k - 20)]

Segments == {<<Flt(3), Zero>>, <<Flt(2), Flt(10)>>}

InitRescale ==
    /\ pc = "call"
    /\ args \in [sulci : SeqsUpTo(TextureValues, MaxVertices),
                 affine : SeqsFrom1(Segments, MaxAnchors + 1),
                 intervals : {Boundaries(m) : m \in 0..MaxAnchors}]
    /\ ret = Pending
    /\ NoMain

CallRescale ==
    /\ pc = "call"
    /\ ret' = rescale(args.sulci, args.affine, args.intervals)
    /\ pc' = "done"
    /\ UNCHANGED <<args, mainVars>>

NextRescale == CallRescale

SpecRescale == InitRescale /\ [][NextRescale]_vars

(***************************************************************************)
(* main, lines 158-195.  The names read_corr and read_file are bound by    *)
(* nothing under src/ but the import of line 4, which binds read_file to a *)
(* module: with nothing else binding them, line 158 raises NameError, and  *)
(* with read_corr alone bound, line 163 raises TypeError.  The environment *)
(* of the call says whether each name is bound to a function; what the     *)
(* functions then return is the four lists of the table of                 *)
(* correspondences and, for each species, the tables of its model.         *)
(***************************************************************************)
ModelA ==
    [dimRect |-> <<Flt(100), Flt(50)>>,
     lat_sphere |-> <<Flt(30), Flt(150)>>,
     longitudeAxisID |-> [x \in {"a", "b"} |-> IF x = "a" THEN 0 ELSE 1],
     latitudeAxisID |-> [x \in {"a", "b"} |-> IF x = "a" THEN 1 ELSE 0],
     longitudeAxisCoord |-> <<Flt(10), Flt(40)>>,
     latitudeAxisCoord |-> <<Flt(35), Flt(45)>>,
     longitudeAxisSulci |-> <<<<"a">>, <<"b">>>>,
     latitudeAxisSulci |-> <<<<"b">>, <<"a">>>>]

ModelB ==
    [dimRect |-> <<Flt(200), Flt(80)>>,
     lat_sphere |-> <<Flt(30), Flt(150)>>,
     longitudeAxisID |-> [x \in {"a", "b"} |-> IF x = "a" THEN 0 ELSE 1],
     latitudeAxisID |-> [x \in {"c", "d"} |-> IF x = "c" THEN 0 ELSE 1],
     longitudeAxisCoord |-> <<Flt(30), Flt(90)>>,
     latitudeAxisCoord |-> <<Flt(20), Flt(60)>>,
     longitudeAxisSulci |-> <<<<"a">>, <<"b">>>>,
     latitudeAxisSulci |-> <<<<"c">>, <<"d">>>>]

ModelC ==
    [dimRect |-> <<Flt(200), Flt(80)>>,
     lat_sphere |-> <<Flt(30), Flt(150)>>,
     longitudeAxisID |-> [x \in {"a", "b"} |-> IF x = "a" THEN 1 ELSE 0],
     latitudeAxisID |-> [x \in {"a", "b"} |-> IF x = "a" THEN 0 ELSE 1],
     longitudeAxisCoord |-> <<Flt(30), Flt(90)>>,
     latitudeAxisCoord |-> <<Flt(20), Flt(60)>>,
     longitudeAxisSulci |-> <<<<"b">>, <<"a">>>>,
     latitudeAxisSulci |-> <<<<"b">>, <<"a">>>>]

\* a model whose list of latitudes is shorter than its list of longitudes
ModelD ==
    [dimRect |-> <<Flt(200), Flt(80)>>,
     lat_sphere |-> <<Flt(30), Flt(150)>>,
     longitudeAxisID |-> [x \in {"a", "b"} |-> IF x = "a" THEN 0 ELSE 1],
     latitudeAxisID |-> [x \in {"a"} |-> 0],
     longitudeAxisCoord |-> <<Flt(30), Flt(90)>>,
     latitudeAxisCoord |-> <<Flt(20)>>,
     longitudeAxisSulci |-> <<<<"a">>, <<"b">>>>,
     latitudeAxisSulci |-> <<<<"a">>>>]

Models == {ModelA, ModelB, ModelC, ModelD}

CorrLists == SeqsFrom1(0..(Len(ModelA.longitudeAxisSulci) - 1), MaxAnchors)

\* AxisCoord[AxisID[AxisSulci[key][0]]], lines 179-180 and the like
Resolve(AxisSulci, AxisID, AxisCoord, key) ==
    IF key >= Len(AxisSulci) \/ key < -Len(AxisSulci) THEN Raise("IndexError")
    ELSE LET ID == AxisSulci[IF key < 0 THEN key + Len(AxisSulci) + 1 ELSE key + 1][1]
         IN  IF ID \notin DOMAIN AxisID THEN Raise("KeyError")
             ELSE IF AxisID[ID] >= Len(AxisCoord) THEN Raise("IndexError")
             ELSE Return(AxisCoord[AxisID[ID] + 1])

\* np.zeros((2, n))
Zeros2(n) == <<[k \in 1..n |-> Zero], [k \in 1..n |-> Zero]>>

\* a[row][col] = v
Store(a, row, col, v) == [a EXCEPT ![row + 1][col + 1] = v]

Init ==
    /\ pc = "read_corr"
    /\ args \in [read_corr : {"unbound", "function"},
                 read_file : {"module", "function"},
                 table : CorrLists \X CorrLists \X CorrLists \X CorrLists,
                 P1 : Models,
                 P2 : Models]
    /\ corr = <<>>
    /\ ret = Pending
    /\ onSphere = <<>>
    /\ long_corr = <<>>
    /\ lat_corr = <<>>
    /\ i = 0

\* line 158
MainReadCorr ==
    /\ pc = "read_corr"
    /\ IF args.read_corr = "function"
       THEN pc' = "assert" /\ corr' = args.table /\ ret' = ret
       ELSE pc' = "error" /\ corr' = corr /\ ret' = Raise("NameError")
    /\ UNCHANGED <<args, onSphere, long_corr, lat_corr, i>>

\* line 159
MainAssert ==
    /\ pc = "assert"
    /\ IF Len(corr[1]) = Len(corr[2]) /\ Len(corr[3]) = Len(corr[4])
       THEN pc' = "read_file" /\ ret' = ret
       ELSE pc' = "error" /\ ret' = Raise("AssertionError")
    /\ UNCHANGED <<args, mainVars>>

\* lines 162-166: args.P1 and args.P2 are what the two calls return
MainReadFile ==
    /\ pc = "read_file"
    /\ IF args.read_file = "function"
       THEN pc' = "project" /\ ret' = ret
       ELSE pc' = "error" /\ ret' = Raise("TypeError")
    /\ UNCHANGED <<args, mainVars>>

\* lines 171-177: lat_sphere is left to its default, [30., 150.]
MainSquareToSphere ==
    /\ pc = "project"
    /\ LET r == SquareToSphere(args.P1.dimRect, args.P2.dimRect,
                    <<args.P1.longitudeAxisCoord, args.P1.latitudeAxisCoord>>,
                    <<args.P2.longitudeAxisCoord, args.P2.latitudeAxisCoord>>,
                    <<Flt(30), Flt(150)>>)
       IN  IF Returned(r)
           THEN /\ onSphere' = <<<<r.val[1], r.val[2]>>, <<r.val[3], r.val[4]>>>>
                /\ long_corr' = Zeros2(Len(corr[1]))
                /\ pc' = "long_loop"
                /\ ret' = ret
           ELSE /\ pc' = "error"
                /\ ret' = r
                /\ UNCHANGED <<onSphere, long_corr>>
    /\ i' = 0
    /\ UNCHANGED <<args, corr, lat_corr>>

\* lines 178-184: one iteration
LongLoop ==
    /\ pc = "long_loop"
    /\ i < Len(corr[1])
    /\ LET c1 == Resolve(args.P1.longitudeAxisSulci, args.P1.longitudeAxisID,
                         args.P1.longitudeAxisCoord, corr[1][i + 1])
           c2 == Resolve(args.P2.longitudeAxisSulci, args.P2.longitudeAxisID,
                         args.P2.longitudeAxisCoord, corr[2][i + 1])
       IN  IF ~Returned(c1)
           THEN pc' = "error" /\ ret' = c1 /\ UNCHANGED <<long_corr, i>>
           ELSE IF ~Returned(c2)
           THEN /\ pc' = "error" /\ ret' = c2 /\ i' = i
                /\ long_corr' = Store(long_corr, 0, i, c1.val)
           ELSE /\ long_corr' = Store(Store(long_corr, 0, i, c1.val), 1, i, c2.val)
                /\ i' = i + 1
                /\ UNCHANGED <<pc, ret>>
    /\ UNCHANGED <<args, corr, onSphere, lat_corr>>

\* line 186, once the loop on the longitudes is over
LongLoopEnd ==
    /\ pc = "long_loop"
    /\ i >= Len(corr[1])
    /\ lat_corr' = Zeros2(Len(corr[3]))
    /\ i' = 0
    /\ pc' = "lat_loop"
    /\ UNCHANGED <<args, ret, corr, onSphere, long_corr>>

\* lines 187-193: one iteration; the sulci are looked up in the tables of
\* the longitudes (lines 188, 191) and the coordinate of species 1 is
\* stored in long_corr (line 190)
LatLoop ==
    /\ pc = "lat_loop"
    /\ i < Len(corr[3])
    /\ LET c1 == Resolve(args.P1.longitudeAxisSulci, args.P1.latitudeAxisID,
                         args.P1.latitudeAxisCoord, corr[3][i + 1])
           c2 == Resolve(args.P2.longitudeAxisSulci, args.P2.latitudeAxisID,
                         args.P2.latitudeAxisCoord, corr[4][i + 1])
       IN  IF ~Returned(c1)
           THEN pc' = "error" /\ ret' = c1 /\ UNCHANGED <<long_corr, lat_corr, i>>
           ELSE IF i >= Len(long_corr[1])
           THEN pc' = "error" /\ ret' = Raise("IndexError")
                /\ UNCHANGED <<long_corr, lat_corr, i>>
           ELSE IF ~Returned(c2)
           THEN /\ pc' = "error" /\ ret' = c2
                /\ long_corr' = Store(long_corr, 0, i, c1.val)
                /\ UNCHANGED <<lat_corr, i>>
           ELSE /\ long_corr' = Store(long_corr, 0, i, c1.val)
                /\ lat_corr' = Store(lat_corr, 1, i, c2.val)
                /\ i' = i + 1
                /\ UNCHANGED <<pc, ret>>
    /\ UNCHANGED <<args, corr, onSphere>>

LatLoopEnd ==
    /\ pc = "lat_loop"
    /\ i >= Len(corr[3])
    /\ pc' = "affine"
    /\ UNCHANGED <<args, ret, mainVars>>

\* line 195: long_corr and lat_corr are arrays of floats of shape (2, n)
MainAffine_Transform ==
    /\ pc = "affine"
    /\ ret' = Affine_Transform(onSphere[1], onSphere[2], FloatArray(long_corr),
                               FloatArray(lat_corr))
    /\ pc' = IF Returned(ret') THEN "intervals" ELSE "error"
    /\ UNCHANGED <<args, mainVars>>

Next ==
    \/ MainReadCorr
    \/ MainAssert
    \/ MainReadFile
    \/ MainSquareToSphere
    \/ LongLoop
    \/ LongLoopEnd
    \/ LatLoop
    \/ LatLoopEnd
    \/ MainAffine_Transform

Spec == Init /\ [][Next]_vars

(***************************************************************************)
(* Properties.                                                             *)
(***************************************************************************)
\* y = scale * v + offset
Eval(seg, v) == FAdd(FMul(v, seg[1]), seg[2])

\* the segment of v under the half-open convention: the first segment below
\* the first boundary, segment k + 1 on [boundaries[k], boundaries[k + 1]),
\* the last one from the last boundary on
SegmentOf(v, boundaries) ==
    1 + Cardinality({k \in 1..Len(boundaries) : FGe(v, boundaries[k])})

Reverse(s) == [k \in 1..Len(s) |-> s[Len(s) + 1 - k]]

RescalePre == pc = "done" /\ Len(args.affine) = Len(args.intervals) + 1

\* C1: with as many segments as boundaries plus one, rescale returns at the
\* position of every value v the value v * scale + offset, (scale, offset)
\* being the segment selected for v.
C1_RescaleAppliesSegment ==
    RescalePre =>
        \A p \in 1..Len(args.sulci) :
            /\ Returned(ret)
            /\ p <= Len(ret.val)
            /\ ret.val[p] = Eval(args.affine[SegmentOf(args.sulci[p], args.intervals)],
                                 args.sulci[p])

\* C2: rescale selects the segment of each value by the half-open intervals
\* of the boundaries whatever the order of the values: the output at a
\* position depends on the value there alone, and the values in the reverse
\* order give the outputs in the reverse order.
C2_RescaleOrderIndependent ==
    (RescalePre /\ Len(args.sulci) >= 2) =>
        /\ Returned(ret)
        /\ \A p \in 1..Len(args.sulci) :
              \E k \in 1..Len(args.affine) :
                  /\ k = SegmentOf(args.sulci[p], args.intervals)
                  /\ p <= Len(ret.val)
                  /\ ret.val[p] = Eval(args.affine[k], args.sulci[p])
        /\ rescale(Reverse(args.sulci), args.affine, args.intervals)
             = Return(Reverse(ret.val))

\* C3: with as many segments as boundaries plus one, rescale finishes
\* without an index out of range and returns one output per input.
C3_RescaleTotal ==
    RescalePre => Returned(ret) /\ Len(ret.val) = Len(args.sulci)

\* the coordinates of the corresponding axes, lines 88-91
AnchorCoords(coords, corrArray, col) == Take(coords, Column(corrArray, col)).val

StrictlyIncreasing(s) == \A k \in 1..(Len(s) - 1) : FLt(s[k], s[k + 1])

Degenerate(s) == \E k \in 1..(Len(s) - 1) : s[k] = s[k + 1]

\* the segment after anchor k is the line through the anchors k and k + 1
Interpolates(transform, c1, c2) ==
    \A k \in 1..(Len(c1) - 1) :
        /\ k + 1 <= Len(transform)
        /\ LET scale == FDiv(FSub(c2[k + 1], c2[k]), FSub(c1[k + 1], c1[k]))
           IN  transform[k + 1] = <<scale, FSub(c2[k], FMul(c1[k], scale))>>
        /\ Eval(transform[k + 1], c1[k]) = c2[k]
        /\ Eval(transform[k + 1], c1[k + 1]) = c2[k + 1]

AffineDone == pc = "done" /\ "long_corr" \in DOMAIN args

\* C4: for N >= 2 anchors with strictly increasing coordinates of species 1,
\* on the longitudes and on the latitudes, Affine_Transform computes without
\* error every segment between two consecutive anchors, and the segment
\* passes through both anchors.
C4_InteriorSegments ==
    AffineDone =>
        LET longP1 == AnchorCoords(args.sulciP1[1], args.long_corr, 0)
            longP2 == AnchorCoords(args.sulciP2[1], args.long_corr, 1)
            latP1 == AnchorCoords(args.sulciP1[2], args.lat_corr, 0)
            latP2 == AnchorCoords(args.sulciP2[2], args.lat_corr, 1)
        IN  (/\ StrictlyIncreasing(longP1)
             /\ StrictlyIncreasing(latP1)
             /\ (Len(longP1) >= 2 \/ Len(latP1) >= 2))
            => /\ Returned(ret)
               /\ Interpolates(ret.val[1], longP1, longP2)
               /\ Interpolates(ret.val[2], latP1, latP2)

\* C5: the transforms Affine_Transform returns have N + 1 segments for N
\* anchors, on the longitudes and on the latitudes.
C5_SegmentCount ==
    (AffineDone /\ Returned(ret)) =>
        /\ Len(ret.val[1]) = Len(args.long_corr.rows) + 1
        /\ Len(ret.val[2]) = Len(args.lat_corr.rows) + 1

\* C6: the first segment Affine_Transform returns has the offset 0 and the
\* scale coord2 / coord1 of the first corresponding axis, the first pair of
\* the table of correspondences.
C6_FirstSegmentFromFirstAnchor ==
    (AffineDone /\ Returned(ret)) =>
        /\ ret.val[1][1] =
             <<FDiv(AnchorCoords(args.sulciP2[1], args.long_corr, 1)[1],
                    AnchorCoords(args.sulciP1[1], args.long_corr, 0)[1]), Zero>>
        /\ ret.val[2][1] =
             <<FDiv(AnchorCoords(args.sulciP2[2], args.lat_corr, 1)[1],
                    AnchorCoords(args.sulciP1[2], args.lat_corr, 0)[1]), Zero>>

\* C10: when two consecutive anchors have the same coordinate of species 1,
\* Affine_Transform fails with DegenerateInterval and returns no transform.
C10_DegenerateIntervalRaised ==
    (/\ AffineDone
     /\ \/ Degenerate(AnchorCoords(args.sulciP1[1], args.long_corr, 0))
        \/ Degenerate(AnchorCoords(args.sulciP1[2], args.lat_corr, 0)))
    => ret.err = "DegenerateInterval"

\* the coordinate of the landmark key through the tables of one kind of axis
LongitudeOf(model, key) ==
    Resolve(model.longitudeAxisSulci, model.longitudeAxisID,
            model.longitudeAxisCoord, key)

LatitudeOf(model, key) ==
    Resolve(model.latitudeAxisSulci, model.latitudeAxisID,
            model.latitudeAxisCoord, key)

\* C7: once both loops of main have run, the anchors of the longitudes hold
\* the longitudes of the corresponding landmarks of species 1 and 2, and the
\* anchors of the latitudes their latitudes, each resolved through the
\* tables of its own kind of axis.
C7_ResolvedAnchors ==
    (/\ pc = "affine"
     /\ \A k \in 1..Len(corr[1]) :
            Returned(LongitudeOf(args.P1, corr[1][k]))
              /\ Returned(LongitudeOf(args.P2, corr[2][k]))
     /\ \A k \in 1..Len(corr[3]) :
            Returned(LatitudeOf(args.P1, corr[3][k]))
              /\ Returned(LatitudeOf(args.P2, corr[4][k])))
    => /\ \A k \in 1..Len(corr[1]) :
            /\ long_corr[1][k] = LongitudeOf(args.P1, corr[1][k]).val
            /\ long_corr[2][k] = LongitudeOf(args.P2, corr[2][k]).val
       /\ \A k \in 1..Len(corr[3]) :
            /\ lat_corr[1][k] = LatitudeOf(args.P1, corr[3][k]).val
            /\ lat_corr[2][k] = LatitudeOf(args.P2, corr[4][k]).val

ProjectDone == pc = "done" /\ "lat_sphere" \in DOMAIN args

\* C8: when the inputs of species 1 raise nothing, SquareToSphere returns
\* for species 2 what it returns for the same dimensions and lists given as
\* species 1 (or raises what it raises for them), and reads no latitude of
\* species 2 out of range.
C8_SpeciesTreatedAlike ==
    ProjectDone =>
        LET none == <<<<>>, <<>>>>
            alone == SquareToSphere(args.dimP1, args.dimP1, args.sulciP1, none,
                                    args.lat_sphere)
            asP1 == SquareToSphere(args.dimP2, args.dimP1, args.sulciP2, none,
                                   args.lat_sphere)
        IN  Returned(alone) =>
              IF Returned(asP1)
              THEN /\ Returned(ret)
                   /\ ret.val[3] = asP1.val[1]
                   /\ ret.val[4] = asP1.val[2]
              ELSE ret = asP1

InBand(v, band) == FLt(band[1], v) /\ FLt(v, band[2])

PolesKept(lats, out, band) ==
    /\ Len(out) = Len(lats)
    /\ \A k \in 1..Len(lats) : ~InBand(lats[k], band) => out[k] = lats[k]

\* C9: every latitude SquareToSphere returns, of species 1 and of species 2,
\* whose value on the rectangle is at or outside the band is the value on
\* the rectangle, at the same position: only the values strictly inside the
\* band are rescaled.
C9_PolesPreserved ==
    (ProjectDone /\ Returned(ret)) =>
        /\ PolesKept(args.sulciP1[2], ret.val[2], args.lat_sphere)
        /\ PolesKept(args.sulciP2[2], ret.val[4], args.lat_sphere)

\* a call that returned, with for each species a latitude on a bound of the
\* band, kept, and one strictly inside it, rescaled
C9_Witness ==
    /\ ProjectDone
    /\ Returned(ret)
    /\ \E k \in 1..Len(args.sulciP1[2]) :
          args.sulciP1[2][k] = args.lat_sphere[1] /\ ret.val[2][k] = args.sulciP1[2][k]
    /\ \E k \in 1..Len(args.sulciP1[2]) :
          InBand(args.sulciP1[2][k], args.lat_sphere)
            /\ ret.val[2][k] # args.sulciP1[2][k]
    /\ \E k \in 1..Len(args.sulciP2[2]) :
          /\ k <= Len(args.sulciP2[1])
          /\ args.sulciP2[2][k] = args.lat_sphere[1]
          /\ ret.val[4][k] = args.sulciP2[2][k]
    /\ \E k \in 1..Len(args.sulciP2[2]) :
          InBand(args.sulciP2[2][k], args.lat_sphere)
            /\ ret.val[4][k] # args.sulciP2[2][k]

====
